---- MODULE Spec2Model ----
(***************************************************************************)
(* Payment simulator of cosmic-coffee-demo: PaymentProcessor               *)
(* (src/payment/services/payment_processor.py) and the background task and *)
(* startup hook of the payment service (src/payment/main.py).              *)
(*                                                                         *)
(* Time is counted in milliseconds so that the base delay of 0.5 s and the *)
(* slowdown delays of 2 s .. 5 s are integers.  time.time() is the         *)
(* variable now; it never goes backwards.  A failure draw of               *)
(* random.random() is counted in hundredths (0 .. 99 stands for [0, 1)).   *)
(***************************************************************************)
EXTENDS Integers, FiniteSets, Sequences, TLC

----------------------------------------------------------------------------
(* Bounds of the model *)

\* number of payment calls that can be in flight at the same time
NumCalls == 2

\* last clock reading of a run, in seconds
MaxTime == 1501

\* clock reading at which the PaymentProcessor is constructed, in seconds
EpochStart == 1

\* number of distinct values uuid4 can draw in the model
UuidSpace == 2

\* largest number of periodic checks that fail one after the other
MaxFaults == 2

----------------------------------------------------------------------------
(* Constants of the program *)

failure_rate == 5

_slowdown_interval == 900

_slowdown_duration == 300

_slowdown_min_delay == 2

_slowdown_max_delay == 5

\* asyncio.sleep(0.5) of process_payment, in milliseconds
BaseDelayMs == 500

\* asyncio.sleep(30) of monitor_slowdown_cycles, in seconds
MonitorPeriod == 30

Ms(seconds) == seconds * 1000

\* Python's None; every clock reading is positive
None == 0 - 1

\* the lock is held by nobody
Free == 0

\* the id of the background task as a holder of the lock
Monitor == NumCalls + 1

Calls == 1 .. NumCalls

----------------------------------------------------------------------------
(* Inputs *)

\* values of the environment variable PAYMENT_SLOWDOWN_ENABLED, lower-cased
EnvValues == {"true", "false"}

Amounts == {0, 450}

\* the amounts call c is made with: the first call ranges over Amounts, the
\* calls that run beside it carry the amount 4.50 of the scenarios
AmountsOf(c) == IF c = 1 THEN Amounts ELSE {450}

CustomerNames == {"Ada Lovelace", ""}

\* random.random(), in hundredths: both sides of the failure rate and the ends
FailureDraws == {0, failure_rate - 1, failure_rate, 99}

\* uuid.uuid4(): 122 random bits, here one of UuidSpace values; Spec keeps no
\* history of the draws, so there a draw is any of the values
Uuids == 1 .. UuidSpace

\* random.uniform(lo, hi), in milliseconds: the two ends of the range
UniformDraws(lo, hi) == {Ms(lo), Ms(hi)}

\* steps by which the clock is seen to advance, in milliseconds
TimeSteps == {Ms(_slowdown_duration), Ms(_slowdown_interval)}

----------------------------------------------------------------------------
VARIABLES
    env,                  \* PAYMENT_SLOWDOWN_ENABLED, lower-cased
    now,                  \* time.time(), in milliseconds
    started,              \* the startup event has run
    _slowdown_active,
    _slowdown_start_time,
    _next_slowdown_time,
    _slowdown_lock,       \* holder of the lock: Free, a call or Monitor
    monitor_pc,           \* position of monitor_slowdown_cycles
    monitor_remaining,    \* what is left of the monitor's sleep
    pc,                   \* position of each payment call
    amount,               \* the amount argument of each call in flight
    slowdown_delay,       \* the local slowdown_delay of each call
    remaining,            \* what is left of each call's current sleep
    latency,              \* sum of the sleeps each call has asked for
    returned,             \* the returns of the step just taken: {} or one record
    response,             \* the HTTP responses of the step just taken: {} or one
    issued,               \* SpecIds only: the transaction ids returned so far
    reference,            \* SpecOutcome only: an earlier return, kept to compare
    last_period,          \* SpecPeriods only: start and end of the last slow period
    faults                \* SpecMonitor only: periodic checks failed in a row

vars == <<env, now, started, _slowdown_active, _slowdown_start_time,
          _next_slowdown_time, _slowdown_lock, monitor_pc, monitor_remaining,
          pc, amount, slowdown_delay, remaining, latency, returned, response,
          issued, reference, last_period, faults>>

\* the variables that keep a history for one specification
historyVars == <<issued, reference, last_period, faults>>

slowdownVars == <<_slowdown_active, _slowdown_start_time, _next_slowdown_time>>

monitorVars == <<monitor_pc, monitor_remaining>>

callVars == <<pc, amount, slowdown_delay, remaining, latency>>

----------------------------------------------------------------------------
(* Pure functions *)

\* os.getenv(...).lower() in ("true", "1", "yes")
ParseEnabled(value) == value \in {"true", "1", "yes"}

\* PaymentProcessor._slowdown_enabled, fixed at construction
_slowdown_enabled == ParseEnabled(env)

\* slowdown_enabled of main.py, read from the same environment
slowdown_enabled == ParseEnabled(env)

\* truth value of an optional float in a Python condition
Truthy(x) == x # None /\ x # 0

\* ShouldStart with a slow period starting only after its scheduled time
ShouldStart_StrictlyAfter(act, next, t) == ~act /\ Truthy(next) /\ t > next

\* the condition of the first branch of _check_and_update_slowdown
ShouldStart(act, next, t) == ~act /\ Truthy(next) /\ t >= next

\* ShouldEnd with a slow period ending only after more than the duration
ShouldEnd_StrictlyAfter(act, start, t) ==
    act /\ Truthy(start) /\ t - start > Ms(_slowdown_duration)

\* the condition under which the second branch ends the slow period
ShouldEnd(act, start, t) ==
    act /\ Truthy(start) /\ t - start >= Ms(_slowdown_duration)

\* NextAfterEnd with no interval between two slow periods
NextAfterEnd_NoInterval(start, t) == t

\* NextAfterEnd counted from the scheduled end of the slow period
NextAfterEnd_FromStart(start, t) ==
    start + Ms(_slowdown_duration) + Ms(_slowdown_interval)

\* the value line 59 gives _next_slowdown_time when a slow period ends
NextAfterEnd(start, t) == t + Ms(_slowdown_interval)

\* CheckAndUpdate without line 58: the start time survives the slow period
CheckAndUpdate_KeepsStart(en, act, start, next, t) ==
    IF ~en THEN [active |-> act, start |-> start, next |-> next]
    ELSE IF ShouldStart(act, next, t)
        THEN [active |-> TRUE, start |-> t, next |-> next]
    ELSE IF ShouldEnd(act, start, t)
        THEN [active |-> FALSE, start |-> start, next |-> NextAfterEnd(start, t)]
    ELSE [active |-> act, start |-> start, next |-> next]

\* _check_and_update_slowdown as a function of the state and the clock
CheckAndUpdate(en, act, start, next, t) ==
    IF ~en THEN [active |-> act, start |-> start, next |-> next]
    ELSE IF ShouldStart(act, next, t)
        THEN [active |-> TRUE, start |-> t, next |-> next]
    ELSE IF ShouldEnd(act, start, t)
        THEN [active |-> FALSE, start |-> None, next |-> NextAfterEnd(start, t)]
    ELSE [active |-> act, start |-> start, next |-> next]

\* GetSlowdownDelay without the test of the active flag
GetSlowdownDelay_IgnoresActive(en, act) ==
    IF ~en THEN {0}
    ELSE UniformDraws(_slowdown_min_delay, _slowdown_max_delay)

\* the values _get_slowdown_delay can return, in milliseconds
GetSlowdownDelay(en, act) ==
    IF ~en \/ ~act THEN {0}
    ELSE UniformDraws(_slowdown_min_delay, _slowdown_max_delay)

HasKey(r, k) == k \in DOMAIN r

\* PaymentResult declining every payment made during a slow period
PaymentResult_DeclinesWhenSlow(draw, uuid, amt) ==
    IF _slowdown_active \/ draw < failure_rate
    THEN [success |-> FALSE, reason |-> "Insufficient funds",
          transaction_id |-> None]
    ELSE [success |-> TRUE, transaction_id |-> uuid, amount |-> amt]

\* PaymentResult with one transaction id generated once and used by every call
PaymentResult_SharedId(draw, uuid, amt) ==
    IF draw < failure_rate
    THEN [success |-> FALSE, reason |-> "Insufficient funds",
          transaction_id |-> None]
    ELSE [success |-> TRUE, transaction_id |-> 1, amount |-> amt]

\* PaymentResult with the transaction id generated before the failure draw
PaymentResult_IdOnDecline(draw, uuid, amt) ==
    IF draw < failure_rate
    THEN [success |-> FALSE, reason |-> "Insufficient funds",
          transaction_id |-> uuid]
    ELSE [success |-> TRUE, transaction_id |-> uuid, amount |-> amt]

\* PaymentResult with `<=` in place of `<` in the failure test
PaymentResult_InclusiveRate(draw, uuid, amt) ==
    IF draw <= failure_rate
    THEN [success |-> FALSE, reason |-> "Insufficient funds",
          transaction_id |-> None]
    ELSE [success |-> TRUE, transaction_id |-> uuid, amount |-> amt]

\* the dict process_payment returns for a failure draw and a uuid4 draw
PaymentResult(draw, uuid, amt) ==
    IF draw < failure_rate
    THEN [success |-> FALSE, reason |-> "Insufficient funds",
          transaction_id |-> None]
    ELSE [success |-> TRUE, transaction_id |-> uuid, amount |-> amt]

----------------------------------------------------------------------------
(* The endpoints of main.py *)

\* messages of the exceptions a call can raise unexpectedly
Errors == {"boom"}

\* what `await payment_processor.process_payment(...)` ends with
Returns(result) == [kind |-> "return", result |-> result]

Raises(error) == [kind |-> "raise", error |-> error]

\* result.get(key, default)
DictGet(r, k, default) == IF HasKey(r, k) THEN r[k] ELSE default

HTTPException(status_code, detail) ==
    [type |-> "HTTPException", status_code |-> status_code, detail |-> detail]

\* the body of the try block of process_payment: it returns the
\* PaymentResponse or raises; an f-string is the tuple of its parts
TryBody(outcome) ==
    IF outcome.kind = "raise"
    THEN [kind |-> "raise",
          exc |-> [type |-> "Exception", error |-> outcome.error]]
    ELSE IF ~outcome.result.success
    THEN [kind |-> "raise",
          exc |-> HTTPException(402,
                    <<"Payment failed: ",
                      DictGet(outcome.result, "reason", "Unknown error")>>)]
    ELSE [kind |-> "return",
          value |-> [success |-> TRUE,
                     transaction_id |->
                         DictGet(outcome.result, "transaction_id", None),
                     reason |-> None,
                     amount |-> DictGet(outcome.result, "amount", None)]]

\* ExceptClauses without `except HTTPException: raise`
ExceptClauses_CatchesAll(exc) ==
    HTTPException(500, <<"Internal server error: ",
                         IF exc.type = "HTTPException" THEN "402" ELSE exc.error>>)

\* the except clauses of process_payment: the exception that leaves it
ExceptClauses(exc) ==
    IF exc.type = "HTTPException" THEN exc
    ELSE HTTPException(500, <<"Internal server error: ", exc.error>>)

\* the HTTP response of POST /api/payment
PaymentEndpoint(outcome) ==
    LET body == TryBody(outcome)
    IN IF body.kind = "return"
       THEN [endpoint |-> "/api/payment", status |-> 200, body |-> body.value]
       ELSE LET exc == ExceptClauses(body.exc)
            IN [endpoint |-> "/api/payment", status |-> exc.status_code,
                body |-> [detail |-> exc.detail]]

\* the HTTP response of GET /health
HealthEndpoint ==
    [endpoint |-> "/health", status |-> 200,
     body |-> [status |-> "ok", service |-> "payment"]]

----------------------------------------------------------------------------
\* FirstSlowdownTime for a service that waits one interval before its first
\* slow period
FirstSlowdownTime_AfterInterval(en, t) ==
    IF en THEN t + Ms(_slowdown_interval) ELSE None

\* self._next_slowdown_time as __init__ sets it, at the clock reading t
FirstSlowdownTime(en, t) == IF en THEN t ELSE None

Init ==
    /\ env \in EnvValues
    /\ now = Ms(EpochStart)
    /\ started = FALSE
    /\ _slowdown_active = FALSE
    /\ _slowdown_start_time = None
    /\ _next_slowdown_time = FirstSlowdownTime(ParseEnabled(env), now)
    /\ _slowdown_lock = Free
    /\ monitor_pc = "not_started"
    /\ monitor_remaining = 0
    /\ pc = [c \in Calls |-> "idle"]
    /\ amount = [c \in Calls |-> None]
    /\ slowdown_delay = [c \in Calls |-> 0]
    /\ remaining = [c \in Calls |-> 0]
    /\ latency = [c \in Calls |-> 0]
    /\ returned = {}
    /\ response = {}
    /\ issued = <<>>
    /\ reference = {}
    /\ last_period = [start |-> None, end |-> None]
    /\ faults = 0

----------------------------------------------------------------------------
(* The clock *)

Elapse(left, d) == IF left > d THEN left - d ELSE 0

\* time passes: every sleep in progress gets shorter
AdvanceTime ==
    \E d \in TimeSteps :
        /\ now + d <= Ms(MaxTime)
        /\ now' = now + d
        /\ remaining' = [c \in Calls |-> Elapse(remaining[c], d)]
        /\ monitor_remaining' = Elapse(monitor_remaining, d)
        /\ returned' = {}
        /\ response' = {}
        /\ UNCHANGED <<historyVars, env, started, slowdownVars,
                       _slowdown_lock, monitor_pc, pc, amount, slowdown_delay,
                       latency>>

----------------------------------------------------------------------------
(* main.py *)

\* StartsMonitor with the task created whatever the flag says
StartsMonitor_Always == TRUE

\* whether startup_event creates the monitoring task
StartsMonitor == slowdown_enabled

\* startup_event: runs once, before any request is served
Startup ==
    /\ ~started
    /\ started' = TRUE
    /\ IF StartsMonitor
       THEN /\ monitor_pc' = "sleep"
            /\ monitor_remaining' = Ms(MonitorPeriod)
       ELSE UNCHANGED monitorVars
    /\ returned' = {}
    /\ response' = {}
    /\ UNCHANGED <<historyVars, env, now, slowdownVars, _slowdown_lock,
                   callVars>>

\* MonitorMayEnter for a monitor that runs its check without the lock
MonitorMayEnter_NoLock == TRUE

\* whether a task may enter `async with payment_processor._slowdown_lock`
MonitorMayEnter == _slowdown_lock = Free

\* monitor_slowdown_cycles: asyncio.sleep(30) is over, the lock is taken
MonitorAcquire ==
    /\ monitor_pc = "sleep"
    /\ monitor_remaining = 0
    /\ MonitorMayEnter
    /\ _slowdown_lock' = Monitor
    /\ monitor_pc' = "check"
    /\ returned' = {}
    /\ response' = {}
    /\ UNCHANGED <<historyVars, env, now, started, slowdownVars,
                   monitor_remaining, callVars>>

\* LockAfterMonitor for a monitor that keeps the lock while it sleeps
LockAfterMonitor_KeptInSleep == Monitor

\* the holder of the lock once the monitor has left its `async with` block
LockAfterMonitor == Free

\* monitor_slowdown_cycles: the state check under the lock; the block ends
\* and the loop goes back to asyncio.sleep(30)
MonitorCheckUnderLock ==
    /\ monitor_pc = "check"
    /\ LET s == CheckAndUpdate(_slowdown_enabled, _slowdown_active,
                               _slowdown_start_time, _next_slowdown_time, now)
       IN /\ _slowdown_active' = s.active
          /\ _slowdown_start_time' = s.start
          /\ _next_slowdown_time' = s.next
    /\ _slowdown_lock' = LockAfterMonitor
    /\ monitor_pc' = "sleep"
    /\ monitor_remaining' = Ms(MonitorPeriod)
    /\ returned' = {}
    /\ response' = {}
    /\ UNCHANGED <<env, now, started, callVars>>

MonitorCheck == MonitorCheckUnderLock /\ UNCHANGED historyVars

----------------------------------------------------------------------------
(* PaymentProcessor.process_payment, one call c *)

\* a request arrives and process_payment is called
StartCall(c) ==
    /\ started
    /\ pc[c] = "idle"
    /\ \E name \in CustomerNames, amt \in AmountsOf(c) :
          amount' = [amount EXCEPT ![c] = amt]
    /\ pc' = [pc EXCEPT ![c] = "acquire"]
    /\ returned' = {}
    /\ response' = {}
    /\ UNCHANGED <<historyVars, env, now, started, slowdownVars,
                   _slowdown_lock, monitorVars, slowdown_delay, remaining,
                   latency>>

\* whether a call may enter `async with self._slowdown_lock`
CallMayEnter == _slowdown_lock = Free

Acquire(c) ==
    /\ pc[c] = "acquire"
    /\ CallMayEnter
    /\ _slowdown_lock' = c
    /\ pc' = [pc EXCEPT ![c] = "check"]
    /\ returned' = {}
    /\ response' = {}
    /\ UNCHANGED <<historyVars, env, now, started, slowdownVars, monitorVars,
                   amount, slowdown_delay, remaining, latency>>

\* CheckUnderLock for a call that reads its delay without the state check
CheckUnderLock_Skipped(c) ==
    /\ pc[c] = "check"
    /\ pc' = [pc EXCEPT ![c] = "delay"]
    /\ returned' = {}
    /\ response' = {}
    /\ UNCHANGED <<env, now, started, slowdownVars, _slowdown_lock, monitorVars,
                   amount, slowdown_delay, remaining, latency>>

\* self._check_and_update_slowdown() under the lock
CheckUnderLock(c) ==
    /\ pc[c] = "check"
    /\ LET s == CheckAndUpdate(_slowdown_enabled, _slowdown_active,
                               _slowdown_start_time, _next_slowdown_time, now)
       IN /\ _slowdown_active' = s.active
          /\ _slowdown_start_time' = s.start
          /\ _next_slowdown_time' = s.next
    /\ pc' = [pc EXCEPT ![c] = "delay"]
    /\ returned' = {}
    /\ response' = {}
    /\ UNCHANGED <<env, now, started, _slowdown_lock, monitorVars, amount,
                   slowdown_delay, remaining, latency>>

Check(c) == CheckUnderLock(c) /\ UNCHANGED historyVars

\* LockAfterExit for sleeps placed inside the `async with` block
LockAfterExit_HeldInSleep(c) == c

\* the holder of the lock once call c has left the `async with` block
LockAfterExit(c) == Free

\* BaseSleep with the base delay in the else branch of `if slowdown_delay > 0`
BaseSleep_OnlyWhenNotSlow(delay) == IF delay > 0 THEN 0 ELSE BaseDelayMs

\* the sleep process_payment asks for after the slowdown sleep, if any
BaseSleep(delay) == BaseDelayMs

\* slowdown_delay = self._get_slowdown_delay() under the lock; the
\* `async with` block ends; the call goes to sleep for the slowdown delay if
\* there is one, and for the base delay otherwise
GetDelay(c) ==
    /\ pc[c] = "delay"
    /\ \E d \in GetSlowdownDelay(_slowdown_enabled, _slowdown_active) :
          /\ slowdown_delay' = [slowdown_delay EXCEPT ![c] = d]
          /\ IF d > 0
             THEN /\ pc' = [pc EXCEPT ![c] = "sleep_slowdown"]
                  /\ remaining' = [remaining EXCEPT ![c] = d]
                  /\ latency' = [latency EXCEPT ![c] = d]
             ELSE /\ pc' = [pc EXCEPT ![c] = "sleep_base"]
                  /\ remaining' = [remaining EXCEPT ![c] = BaseSleep(d)]
                  /\ latency' = [latency EXCEPT ![c] = BaseSleep(d)]
    /\ _slowdown_lock' = LockAfterExit(c)
    /\ returned' = {}
    /\ response' = {}
    /\ UNCHANGED <<historyVars, env, now, started, slowdownVars, monitorVars,
                   amount>>

\* asyncio.sleep(slowdown_delay) is over; asyncio.sleep(0.5) begins
WakeSlowdown(c) ==
    /\ pc[c] = "sleep_slowdown"
    /\ remaining[c] = 0
    /\ pc' = [pc EXCEPT ![c] = "sleep_base"]
    /\ remaining' = [remaining EXCEPT ![c] = BaseSleep(slowdown_delay[c])]
    /\ latency' = [latency EXCEPT ![c] = @ + BaseSleep(slowdown_delay[c])]
    /\ returned' = {}
    /\ response' = {}
    /\ UNCHANGED <<historyVars, env, now, started, slowdownVars,
                   _slowdown_lock, monitorVars, amount, slowdown_delay>>

\* asyncio.sleep(0.5) is over: the failure draw, the transaction id, the return
Return(c, draw, uuid) ==
    /\ pc[c] = "sleep_base"
    /\ remaining[c] = 0
    /\ returned' = {[call |-> c, amount |-> amount[c], draw |-> draw,
                     slowdown_delay |-> slowdown_delay[c],
                     latency |-> latency[c],
                     result |-> PaymentResult(draw, uuid, amount[c])]}
    /\ response' = {PaymentEndpoint(Returns(PaymentResult(draw, uuid, amount[c])))}
    /\ pc' = [pc EXCEPT ![c] = "idle"]
    /\ amount' = [amount EXCEPT ![c] = None]
    /\ slowdown_delay' = [slowdown_delay EXCEPT ![c] = 0]
    /\ latency' = [latency EXCEPT ![c] = 0]
    /\ UNCHANGED <<env, now, started, slowdownVars, _slowdown_lock, monitorVars,
                   remaining>>

\* the end of a call, uuid4 drawing any of its values
Finish(c) ==
    /\ \E draw \in FailureDraws, uuid \in Uuids : Return(c, draw, uuid)
    /\ UNCHANGED historyVars

----------------------------------------------------------------------------
Next ==
    \/ AdvanceTime
    \/ Startup
    \/ MonitorAcquire
    \/ MonitorCheck
    \/ \E c \in Calls : StartCall(c)
    \/ \E c \in Calls : Acquire(c)
    \/ \E c \in Calls : Check(c)
    \/ \E c \in Calls : GetDelay(c)
    \/ \E c \in Calls : WakeSlowdown(c)
    \/ \E c \in Calls : Finish(c)

Spec == Init /\ [][Next]_vars

----------------------------------------------------------------------------
(* The HTTP boundary: unexpected exceptions and the health endpoint *)

\* the holder of the lock after call c has raised: `async with` releases it
LockAfterRaise(c) == IF _slowdown_lock = c THEN Free ELSE _slowdown_lock

\* an unexpected exception is raised while call c is being processed
Fault(c) ==
    /\ pc[c] \in {"check", "delay", "sleep_slowdown", "sleep_base"}
    /\ \E error \in Errors : response' = {PaymentEndpoint(Raises(error))}
    /\ returned' = {}
    /\ _slowdown_lock' = LockAfterRaise(c)
    /\ pc' = [pc EXCEPT ![c] = "idle"]
    /\ amount' = [amount EXCEPT ![c] = None]
    /\ slowdown_delay' = [slowdown_delay EXCEPT ![c] = 0]
    /\ remaining' = [remaining EXCEPT ![c] = 0]
    /\ latency' = [latency EXCEPT ![c] = 0]
    /\ UNCHANGED <<historyVars, env, now, started, slowdownVars, monitorVars>>

\* HealthMayRun for a health check that waits for the slowdown lock
HealthMayRun_NeedsLock == _slowdown_lock = Free

\* what GET /health waits for: nothing
HealthMayRun == TRUE

\* GET /health is served
Health ==
    /\ started
    /\ HealthMayRun
    /\ response' = {HealthEndpoint}
    /\ returned' = {}
    /\ UNCHANGED <<historyVars, env, now, started, slowdownVars, _slowdown_lock,
                   monitorVars, callVars>>

NextHttp ==
    \/ Next
    \/ \E c \in Calls : Fault(c)

SpecHttp == Init /\ [][NextHttp]_vars

----------------------------------------------------------------------------
(* The transaction ids of a run.  uuid.uuid4() draws 122 random bits; here it *)
(* is taken to return a value it has not returned before, and the values   *)
(* are named in the order they are drawn.  It is called by the successful  *)
(* calls only (line 112 follows the return of the Decline).                *)

\* the value of the next uuid4 draw
FreshUuid == Len(issued) + 1

\* the end of a call, with the transaction ids of the run recorded
FinishRecorded(c) ==
    /\ \E draw \in FailureDraws :
          /\ Return(c, draw, FreshUuid)
          /\ issued' = IF draw < failure_rate THEN issued
                       ELSE Append(issued,
                              PaymentResult(draw, FreshUuid, amount[c]).transaction_id)
    /\ UNCHANGED <<reference, last_period, faults>>

\* the transaction id does not read the slowdown state: the runs with the
\* slowdown disabled have every order in which calls can start and return
InitIds == Init /\ ~ParseEnabled(env)

NextIds ==
    \/ AdvanceTime
    \/ Startup
    \/ \E c \in Calls : StartCall(c)
    \/ \E c \in Calls : Acquire(c)
    \/ \E c \in Calls : Check(c)
    \/ \E c \in Calls : GetDelay(c)
    \/ \E c \in Calls : FinishRecorded(c)

SpecIds == InitIds /\ [][NextIds]_vars

----------------------------------------------------------------------------
(* Two runs of process_payment compared: the first is kept in `reference` *)

\* the slowdown state a call ran in, from the flag and the delay it was given
SlowdownStateOf(c) ==
    IF ~_slowdown_enabled THEN "disabled"
    ELSE IF slowdown_delay[c] > 0 THEN "Slow" ELSE "Normal"

\* the inputs, the failure draw and the outcome of the call that returns
RunOf(c, draw, uuid) ==
    [amount |-> amount[c], draw |-> draw, state |-> SlowdownStateOf(c),
     success |-> PaymentResult(draw, uuid, amount[c]).success,
     reason |-> DictGet(PaymentResult(draw, uuid, amount[c]), "reason", None)]

\* the end of a call; the first run to finish is kept for comparison
FinishCompared(c) ==
    /\ \E draw \in FailureDraws, uuid \in Uuids :
          /\ Return(c, draw, uuid)
          /\ reference' = IF reference = {} THEN {RunOf(c, draw, uuid)}
                          ELSE reference
    /\ UNCHANGED <<issued, last_period, faults>>

\* the service is stopped and started again, with any value of the
\* environment variable: PaymentProcessor() is constructed anew
Restart ==
    /\ reference # {}
    /\ env' \in EnvValues
    /\ started' = FALSE
    /\ _slowdown_active' = FALSE
    /\ _slowdown_start_time' = None
    /\ _next_slowdown_time' = FirstSlowdownTime(ParseEnabled(env'), now)
    /\ _slowdown_lock' = Free
    /\ monitor_pc' = "not_started"
    /\ monitor_remaining' = 0
    /\ pc' = [c \in Calls |-> "idle"]
    /\ amount' = [c \in Calls |-> None]
    /\ slowdown_delay' = [c \in Calls |-> 0]
    /\ remaining' = [c \in Calls |-> 0]
    /\ latency' = [c \in Calls |-> 0]
    /\ returned' = {}
    /\ response' = {}
    /\ UNCHANGED <<historyVars, now>>

\* the runs compared follow one another: one call at a time, with the monitor
NextOutcome ==
    \/ AdvanceTime
    \/ Startup
    \/ MonitorAcquire
    \/ MonitorCheck
    \/ StartCall(1)
    \/ Acquire(1)
    \/ Check(1)
    \/ GetDelay(1)
    \/ WakeSlowdown(1)
    \/ FinishCompared(1)
    \/ Restart

SpecOutcome == Init /\ [][NextOutcome]_vars

----------------------------------------------------------------------------
(* The slow periods of a run: the last one that ended is kept in `last_period` *)

\* a check has just ended a slow period
EndsSlowPeriod == _slowdown_active /\ ~_slowdown_active'

\* the last slow period to have ended, after a state check at the clock `now`
LastPeriodAfterCheck ==
    IF EndsSlowPeriod
    THEN [start |-> _slowdown_start_time, end |-> now]
    ELSE last_period

CheckRecorded(c) ==
    /\ CheckUnderLock(c)
    /\ last_period' = LastPeriodAfterCheck
    /\ UNCHANGED <<issued, reference, faults>>

MonitorCheckRecorded ==
    /\ MonitorCheckUnderLock
    /\ last_period' = LastPeriodAfterCheck
    /\ UNCHANGED <<issued, reference, faults>>

NextPeriods ==
    \/ AdvanceTime
    \/ Startup
    \/ MonitorAcquire
    \/ MonitorCheckRecorded
    \/ \E c \in Calls : StartCall(c)
    \/ \E c \in Calls : Acquire(c)
    \/ \E c \in Calls : CheckRecorded(c)
    \/ \E c \in Calls : GetDelay(c)
    \/ \E c \in Calls : WakeSlowdown(c)
    \/ \E c \in Calls : Finish(c)

SpecPeriods == Init /\ [][NextPeriods]_vars

----------------------------------------------------------------------------
(* Runs without end.  The state check compares differences of clock        *)
(* readings only, so the clock is counted from the oldest reading the      *)
(* state holds; the event loop runs every task that is ready before it     *)
(* waits for a timer, so time passes only when no task is ready.  A        *)
(* reading older than duration + interval is counted as that old: the      *)
(* check tests `now >= next` and `now - start >= duration`, which hold for  *)
(* both.                                                                   *)

\* the steps of the clock, with the period of the monitor
LoopTimeSteps == TimeSteps \cup {Ms(MonitorPeriod)}

\* call c is ready to run, or waits only for the lock
Runnable(c) ==
    \/ pc[c] \in {"acquire", "check", "delay"}
    \/ pc[c] \in {"sleep_slowdown", "sleep_base"} /\ remaining[c] = 0

MonitorRunnable ==
    \/ monitor_pc = "check"
    \/ monitor_pc = "sleep" /\ monitor_remaining = 0

\* the clock readings a state holds
Timestamps(t, start, next) == {t} \cup {x \in {start, next} : x # None}

Oldest(readings) == CHOOSE m \in readings : \A x \in readings : m <= x

Rebase(t, shift) == IF t = None THEN None ELSE t - shift

\* the age beyond which the state check treats all readings alike
Horizon == Ms(_slowdown_duration) + Ms(_slowdown_interval)

Aged(x, t) == IF x # None /\ x < t - Horizon THEN t - Horizon ELSE x

\* time passes by one of `steps` until a timer is due; readings are
\* counted from the oldest
AdvanceRebased(steps) ==
    \E d \in steps :
        /\ started
        /\ ~MonitorRunnable
        /\ \A c \in Calls : ~Runnable(c)
        /\ LET t == now + d
               start == Aged(_slowdown_start_time, t)
               next == Aged(_next_slowdown_time, t)
               shift == Oldest(Timestamps(t, start, next)) - Ms(EpochStart)
           IN /\ now' = t - shift
              /\ _slowdown_start_time' = Rebase(start, shift)
              /\ _next_slowdown_time' = Rebase(next, shift)
        /\ remaining' = [c \in Calls |-> Elapse(remaining[c], d)]
        /\ monitor_remaining' = Elapse(monitor_remaining, d)
        /\ returned' = {}
        /\ response' = {}
        /\ UNCHANGED <<historyVars, env, started, _slowdown_active,
                       _slowdown_lock, monitor_pc, pc, amount, slowdown_delay,
                       latency>>

\* the clock of the monitor alone, on the grid of its period
AdvanceTimeRebased == AdvanceRebased(LoopTimeSteps)

\* the clock of the calls and the monitor, on the grid of the slow periods
AdvanceTimeLive == AdvanceRebased(TimeSteps)

----------------------------------------------------------------------------
(* The monitor alone: no payment traffic, some periodic checks fail *)

\* MonitorAfterError for a loop that an error ends
MonitorAfterError_Stops == "stopped"

\* where monitor_slowdown_cycles goes after `except Exception`: the loop
\* goes on with the next asyncio.sleep(30)
MonitorAfterError == "sleep"

\* the periodic check raises: `async with` releases the lock, the error is
\* logged
MonitorFault ==
    /\ monitor_pc = "check"
    /\ faults < MaxFaults
    /\ faults' = faults + 1
    /\ _slowdown_lock' = LockAfterMonitor
    /\ monitor_pc' = MonitorAfterError
    /\ monitor_remaining' = Ms(MonitorPeriod)
    /\ returned' = {}
    /\ response' = {}
    /\ UNCHANGED <<issued, reference, last_period, env, now, started,
                   slowdownVars, callVars>>

\* the periodic check runs to its end
MonitorCheckDone ==
    /\ MonitorCheckUnderLock
    /\ faults' = 0
    /\ UNCHANGED <<issued, reference, last_period>>

InitMonitor == Init /\ ParseEnabled(env)

\* a step of the monitoring task
MonitorTask == MonitorAcquire \/ MonitorCheckDone \/ MonitorFault

NextMonitor ==
    \/ AdvanceTimeRebased
    \/ Startup
    \/ MonitorAcquire
    \/ MonitorCheckDone
    \/ MonitorFault

\* the service starts, time passes and the monitoring task is scheduled
SpecMonitor ==
    /\ InitMonitor
    /\ [][NextMonitor]_vars
    /\ WF_vars(Startup)
    /\ WF_vars(AdvanceTimeRebased)
    /\ WF_vars(MonitorTask)

----------------------------------------------------------------------------
(* Calls and monitor under fair scheduling *)

\* a step of call c, from the `async with` to the return
CallTask(c) ==
    Acquire(c) \/ Check(c) \/ GetDelay(c) \/ WakeSlowdown(c) \/ Finish(c)

\* a step of the monitoring task, no check failing
MonitorLoop == MonitorAcquire \/ MonitorCheck

NextLive ==
    \/ AdvanceTimeLive
    \/ Startup
    \/ MonitorAcquire
    \/ MonitorCheck
    \/ \E c \in Calls : StartCall(c)
    \/ \E c \in Calls : Acquire(c)
    \/ \E c \in Calls : Check(c)
    \/ \E c \in Calls : GetDelay(c)
    \/ \E c \in Calls : WakeSlowdown(c)
    \/ \E c \in Calls : Finish(c)

\* every task that stays ready runs, and time passes when none is ready;
\* a task that waits for the lock is ready once the lock stays free
SpecLive ==
    /\ Init
    /\ [][NextLive]_vars
    /\ WF_vars(Startup)
    /\ WF_vars(AdvanceTimeLive)
    /\ WF_vars(MonitorLoop)
    /\ \A c \in Calls : WF_vars(CallTask(c))

\* the health endpoint next to the calls and the monitor
NextHealth ==
    \/ NextLive
    \/ Health

SpecHealth == Init /\ [][NextHealth]_vars

----------------------------------------------------------------------------
(* Shapes of a returned dict *)

IsDecline(r) ==
    /\ r.success = FALSE
    /\ HasKey(r, "reason") /\ r.reason # ""
    /\ HasKey(r, "transaction_id") /\ r.transaction_id = None

IsSuccess(r) ==
    /\ r.success = TRUE
    /\ HasKey(r, "transaction_id") /\ r.transaction_id # None
    /\ ~HasKey(r, "reason")

CarriesIdAndReason(r) ==
    /\ HasKey(r, "transaction_id") /\ r.transaction_id # None
    /\ HasKey(r, "reason")

----------------------------------------------------------------------------
\* C1: every value process_payment returns is a Decline (success false, a
\* non-empty reason, transaction id None) or a Success (success true, a
\* transaction id, no reason), and never carries both an id and a reason.
C1_DeclineOrSuccess ==
    \A r \in returned :
        /\ IsDecline(r.result) \/ IsSuccess(r.result)
        /\ ~(IsDecline(r.result) /\ IsSuccess(r.result))
        /\ ~CarriesIdAndReason(r.result)

\* a call that slept through a slowdown delay has just returned a Decline
C1_Witness ==
    \E r \in returned : ~r.result.success /\ r.slowdown_delay > 0

\* C2: the failure draw alone decides the outcome: below the failure rate
\* the call returns the Decline "Insufficient funds", at or above it a Success
\* that echoes the amount passed in, with or without a slowdown delay.
C2_DrawDecidesOutcome ==
    \A r \in returned :
        /\ r.draw < failure_rate =>
              /\ IsDecline(r.result)
              /\ r.result.reason = "Insufficient funds"
        /\ r.draw >= failure_rate =>
              /\ IsSuccess(r.result)
              /\ HasKey(r.result, "amount") /\ r.result.amount = r.amount

\* a call delayed by the slowdown drew exactly the failure rate and succeeded
C2_Witness ==
    \E r \in returned :
        /\ r.draw = failure_rate /\ r.slowdown_delay > 0
        /\ r.result.success /\ r.amount = 450

\* C3: the transaction id of a successful call differs from the transaction
\* id of every other successful call of the run, whatever the order in which
\* the calls start and return (uuid4 taken never to repeat a value).
C3_IdsDistinct ==
    \A i, j \in 1 .. Len(issued) : i # j => issued[i] # issued[j]

\* two calls were in flight together and both returned a Success, the second
\* of them just now, and a third success came before or after
C3_Witness ==
    /\ Len(issued) >= 3
    /\ \E r \in returned : r.result.success /\ r.result.transaction_id = issued[Len(issued)]
    /\ \E c \in Calls : pc[c] = "sleep_base"

----------------------------------------------------------------------------
Sleeping(c) == pc[c] \in {"sleep_slowdown", "sleep_base"}

InCriticalSection(c) == pc[c] \in {"check", "delay"}

MonitorInCriticalSection == monitor_pc = "check"

\* C4: with the slowdown disabled, whatever calls were made and however much
\* time has passed, every slowdown delay computed is zero, active is false,
\* the start time and the next slowdown time are unset and the background
\* task has not been started.
C4_DisabledStaysDisabled ==
    ~_slowdown_enabled =>
        /\ \A c \in Calls : slowdown_delay[c] = 0
        /\ \A r \in returned : r.slowdown_delay = 0 /\ r.latency = BaseDelayMs
        /\ _slowdown_active = FALSE
        /\ _slowdown_start_time = None
        /\ _next_slowdown_time = None
        /\ monitor_pc = "not_started"
        /\ _slowdown_lock # Monitor

\* disabled, a whole duration and interval after construction, a call has
\* just returned and another has just had its delay computed
C4_Witness ==
    /\ ~_slowdown_enabled
    /\ now >= Ms(EpochStart) + Ms(_slowdown_duration) + Ms(_slowdown_interval)
    /\ returned # {}
    /\ \E c \in Calls : pc[c] = "sleep_base" /\ remaining[c] > 0

\* C5: the step that computes a call's slowdown delay gives a value in
\* [minDelay, maxDelay] exactly when enabled and active both hold after the
\* call's own state check, gives zero otherwise, and leaves active, the start
\* time and the next slowdown time as they were.
C5_DelayFollowsState ==
    [][\A c \in Calls :
          (pc[c] = "delay" /\ pc'[c] # "delay") =>
              /\ (_slowdown_enabled /\ _slowdown_active) =>
                    /\ slowdown_delay'[c] >= Ms(_slowdown_min_delay)
                    /\ slowdown_delay'[c] <= Ms(_slowdown_max_delay)
              /\ ~(_slowdown_enabled /\ _slowdown_active) =>
                    slowdown_delay'[c] = 0
              /\ slowdownVars' = slowdownVars]_vars

\* one call was given the largest delay while the period was active, and
\* another, checked after the period ended, was given none
C5_Witness ==
    /\ _slowdown_enabled /\ ~_slowdown_active
    /\ \E c, d \in Calls :
          /\ pc[c] = "sleep_slowdown" /\ slowdown_delay[c] = Ms(_slowdown_max_delay)
          /\ pc[d] = "sleep_base" /\ slowdown_delay[d] = 0 /\ remaining[d] > 0

\* C6 as stated: whenever a check ends the slow period that began at s, the
\* next slowdown time becomes s + duration + interval.
C6_NextFromStart ==
    [][EndsSlowPeriod =>
          _next_slowdown_time' =
              _slowdown_start_time + Ms(_slowdown_duration) + Ms(_slowdown_interval)]_vars

\* C6, amended: whenever a check at time t ends the slow period that began
\* at s, then t >= s + duration, active becomes false, the start time is
\* cleared and the next slowdown time becomes t + interval, which is at least
\* s + duration + interval and equal to it only when t = s + duration.
C6_NextFromEndingCheck ==
    [][EndsSlowPeriod =>
          /\ now >= _slowdown_start_time + Ms(_slowdown_duration)
          /\ _slowdown_start_time' = None
          /\ _next_slowdown_time' = now + Ms(_slowdown_interval)
          /\ _next_slowdown_time' >=
                _slowdown_start_time + Ms(_slowdown_duration) + Ms(_slowdown_interval)
          /\ (_next_slowdown_time' =
                _slowdown_start_time + Ms(_slowdown_duration) + Ms(_slowdown_interval))
              <=> (now = _slowdown_start_time + Ms(_slowdown_duration))]_vars

\* a slow period that began at construction was ended by a check that ran
\* later than its scheduled end
C6_Witness ==
    /\ _slowdown_enabled /\ ~_slowdown_active
    /\ _next_slowdown_time >
          Ms(EpochStart) + Ms(_slowdown_duration) + Ms(_slowdown_interval)
    /\ _next_slowdown_time = now + Ms(_slowdown_interval)

\* C7: the slowdown state is never torn: active holds exactly when the start
\* time is set; while active, next slowdown time <= start time <= now; while
\* enabled and not active, the next slowdown time is set.  It holds in every
\* reachable state, so in every state a call or the monitor can observe.
C7_StateNotTorn ==
    /\ _slowdown_active <=> (_slowdown_start_time # None)
    /\ _slowdown_active =>
          /\ _next_slowdown_time # None
          /\ _next_slowdown_time <= _slowdown_start_time
          /\ _slowdown_start_time <= now
    /\ (_slowdown_enabled /\ ~_slowdown_active) => _next_slowdown_time # None

\* a call has just taken the lock in a slow period that began later than
\* scheduled and some time ago, while another call has finished its own check
C7_Witness ==
    /\ _slowdown_active
    /\ _next_slowdown_time < _slowdown_start_time
    /\ _slowdown_start_time < now
    /\ \E c, d \in Calls :
          /\ pc[c] = "check" /\ _slowdown_lock = c
          /\ pc[d] = "sleep_slowdown"

\* C8: at most one of the payment calls and the background task is inside
\* the critical section (state check, then delay read) at any moment, and it
\* is the holder of the lock; so nothing runs between a call's state check
\* and its delay read, and the background task is excluded by the same lock.
C8_MutualExclusion ==
    /\ \A c, d \in Calls :
          (InCriticalSection(c) /\ InCriticalSection(d)) => c = d
    /\ \A c \in Calls : ~(InCriticalSection(c) /\ MonitorInCriticalSection)
    /\ \A c \in Calls : InCriticalSection(c) <=> _slowdown_lock = c
    /\ MonitorInCriticalSection <=> _slowdown_lock = Monitor

\* a call is between its state check and its delay read while another call
\* waits for the lock and the monitor's sleep is over
C8_Witness ==
    /\ \E c, d \in Calls : pc[c] = "delay" /\ pc[d] = "acquire"
    /\ monitor_pc = "sleep" /\ monitor_remaining = 0

\* C9: a call that is asleep, for the slowdown delay or the base delay,
\* does not hold the lock.
C9_NoLockWhileSleeping ==
    \A c \in Calls : Sleeping(c) => _slowdown_lock # c

\* while one call is still asleep for its slowdown delay, the monitor holds
\* the lock and another call has completed its check and gone to sleep too
C9_Witness ==
    /\ _slowdown_lock = Monitor
    /\ \E c, d \in Calls :
          /\ pc[c] = "sleep_slowdown" /\ remaining[c] > 0
          /\ c # d /\ Sleeping(d) /\ remaining[d] > 0

\* C10: every call sleeps for the base delay after its slowdown delay, if
\* any: the sleeps of a returned call add up to exactly 0.5 s when its
\* slowdown delay is zero and to a value in [0.5 s + 2 s, 0.5 s + 5 s]
\* otherwise.
C10_TotalLatency ==
    \A r \in returned :
        /\ r.latency = r.slowdown_delay + BaseDelayMs
        /\ r.slowdown_delay = 0 => r.latency = 500
        /\ r.slowdown_delay > 0 => (r.latency >= 500 + 2000 /\ r.latency <= 500 + 5000)

\* the first check after construction made the slow period active and the
\* call that ran it has returned after the least slowdown delay
C10_Witness ==
    /\ _slowdown_active /\ _slowdown_start_time = Ms(EpochStart)
    /\ \E r \in returned : r.latency = Ms(_slowdown_min_delay) + BaseDelayMs

----------------------------------------------------------------------------
\* C11: at POST /api/payment a returned result with success false always
\* gives HTTP 402 with detail "Payment failed: <reason>" and never HTTP 500;
\* a result with success true gives HTTP 200 with success true, the
\* transaction id and the amount; HTTP 500 is the response only when the
\* processing raised an unexpected exception.
C11_DeclineIsNotFault ==
    /\ \A r \in returned :
          \E q \in response :
              /\ q.endpoint = "/api/payment"
              /\ ~r.result.success =>
                    /\ q.status = 402
                    /\ q.body = [detail |-> <<"Payment failed: ", r.result.reason>>]
              /\ r.result.success =>
                    /\ q.status = 200
                    /\ q.body.success = TRUE
                    /\ q.body.transaction_id = r.result.transaction_id
                    /\ q.body.amount = r.amount
    /\ \A q \in response :
          q.endpoint = "/api/payment" =>
              /\ q.status \in {200, 402, 500}
              /\ q.status = 500 <=> returned = {}

\* a call delayed by the slowdown was declined and answered with HTTP 402
C11_Witness ==
    /\ \E r \in returned : ~r.result.success /\ r.slowdown_delay > 0
    /\ \E q \in response : q.status = 402

----------------------------------------------------------------------------
\* C12: two runs of process_payment with the same inputs and the same failure
\* draw return the same success flag and the same reason, whatever slowdown
\* state (disabled, Normal or Slow) each of them ran in.
C12_OutcomeIgnoresSlowdown ==
    \A r \in returned, q \in reference :
        r.amount = q.amount /\ r.draw = q.draw =>
            /\ r.result.success = q.success
            /\ DictGet(r.result, "reason", None) = q.reason

\* a call of a slow period returns with the inputs and the draw of an
\* accepted call that ran with the slowdown disabled
C12_Witness ==
    \E r \in returned, q \in reference :
        /\ r.amount = q.amount /\ r.draw = q.draw
        /\ q.state = "disabled" /\ q.success
        /\ r.slowdown_delay > 0 /\ _slowdown_active

----------------------------------------------------------------------------
\* a step that serves GET /health
HealthStep == \E q \in response' : q.endpoint = "/health"

\* C13: GET /health can be served in every state of the running service,
\* also while calls sleep or the lock is held; it answers status "ok" and
\* service "payment", does not take the slowdown lock and leaves the slowdown
\* state, the calls and the monitor as they are.
C13_HealthIgnoresSlowdown ==
    /\ [](started => ENABLED Health)
    /\ [][HealthStep =>
            /\ response' = {[endpoint |-> "/health", status |-> 200,
                             body |-> [status |-> "ok", service |-> "payment"]]}
            /\ UNCHANGED <<slowdownVars, _slowdown_lock, monitorVars,
                           callVars>>]_vars

\* /health has just answered while the monitor holds the lock in a slow
\* period and a call sleeps its slowdown delay
C13_Witness ==
    /\ HealthEndpoint \in response
    /\ _slowdown_lock = Monitor
    /\ _slowdown_active
    /\ \E c \in Calls : pc[c] = "sleep_slowdown" /\ remaining[c] > 0

----------------------------------------------------------------------------
\* a step in which a payment call or the monitor runs the state check
CheckStep ==
    \/ \E c \in Calls : pc[c] = "check" /\ pc'[c] = "delay"
    \/ monitor_pc = "check" /\ monitor_pc' = "sleep"

\* C14: with the slowdown enabled and not active, a state check at time now
\* starts a slow period if and only if now >= next slowdown time; it then sets
\* active and start time = now and keeps the next slowdown time; when
\* now < next slowdown time it leaves the three fields unchanged.
C14_StartsAtNextTime ==
    [][(CheckStep /\ _slowdown_enabled /\ ~_slowdown_active) =>
          IF now >= _next_slowdown_time
          THEN /\ _slowdown_active'
               /\ _slowdown_start_time' = now
               /\ _next_slowdown_time' = _next_slowdown_time
          ELSE UNCHANGED slowdownVars]_vars

\* a later slow period was started by a check that ran exactly at the next
\* slowdown time
C14_Witness ==
    /\ _slowdown_active
    /\ _slowdown_start_time = _next_slowdown_time
    /\ _slowdown_start_time > Ms(EpochStart)
    /\ now = _slowdown_start_time

\* C15: with the slowdown active, a state check at time now ends the slow
\* period if and only if now - start time >= duration; it then clears active
\* and the start time and sets the next slowdown time to now + interval;
\* no step of any task ends a slow period earlier than duration after its start.
C15_EndsAfterDuration ==
    [][/\ (CheckStep /\ _slowdown_enabled /\ _slowdown_active) =>
             IF now - _slowdown_start_time >= Ms(_slowdown_duration)
             THEN /\ ~_slowdown_active'
                  /\ _slowdown_start_time' = None
                  /\ _next_slowdown_time' = now + Ms(_slowdown_interval)
             ELSE UNCHANGED slowdownVars
       /\ EndsSlowPeriod =>
             /\ CheckStep
             /\ now - _slowdown_start_time >= Ms(_slowdown_duration)]_vars

\* a check that ran exactly duration after the start has ended the slow
\* period, while a call that was given a delay in it is still asleep
C15_Witness ==
    /\ _slowdown_enabled /\ ~_slowdown_active
    /\ _slowdown_start_time = None
    /\ _next_slowdown_time =
          Ms(EpochStart) + Ms(_slowdown_duration) + Ms(_slowdown_interval)
    /\ now = Ms(EpochStart) + Ms(_slowdown_duration)
    /\ \E c \in Calls : pc[c] = "sleep_slowdown"

----------------------------------------------------------------------------
\* C16: a slow period that follows another one starts no earlier than
\* interval after the check that ended the previous one, hence no earlier
\* than duration + interval after the previous one started, whatever calls
\* and background checks ran in between.
C16_IntervalFromEnd ==
    (_slowdown_active /\ last_period.end # None) =>
        /\ _slowdown_start_time >= last_period.end + Ms(_slowdown_interval)
        /\ _slowdown_start_time >=
              last_period.start + Ms(_slowdown_duration) + Ms(_slowdown_interval)

\* a second slow period runs, started exactly interval after a check that
\* ended the first one later than its scheduled end
C16_Witness ==
    /\ _slowdown_active /\ last_period.end # None
    /\ last_period.end > last_period.start + Ms(_slowdown_duration)
    /\ _slowdown_start_time = last_period.end + Ms(_slowdown_interval)

----------------------------------------------------------------------------
\* C17: with the slowdown enabled and no payment call, the monitoring task
\* alone ends every slow period and starts a later one: active is true
\* infinitely often and false infinitely often, also when some of the
\* periodic checks raise an error.
C17_PeriodsRecur ==
    /\ _slowdown_active ~> ~_slowdown_active
    /\ ~_slowdown_active ~> _slowdown_active
    /\ []<>_slowdown_active
    /\ []<>~_slowdown_active

\* a slow period is due to end and the last periodic checks have failed
C17_Witness ==
    /\ _slowdown_active
    /\ now - _slowdown_start_time >= Ms(_slowdown_duration)
    /\ faults = MaxFaults
    /\ monitor_pc = "sleep"
    /\ \A c \in Calls : pc[c] = "idle"

----------------------------------------------------------------------------
\* C18: the delay is computed from the state the call's own check has left:
\* a call whose state check runs at or after start time + duration ends the
\* slow period, no other task changes the state before the call reads its
\* delay, and the delay it reads is zero, also when active was still true
\* when the call arrived.
C18_NoDelayFromExpiredPeriod ==
    [][\A c \in Calls :
          /\ (/\ pc[c] = "check" /\ pc'[c] = "delay"
              /\ _slowdown_active
              /\ now - _slowdown_start_time >= Ms(_slowdown_duration)) =>
                 ~_slowdown_active'
          /\ (pc[c] = "delay" /\ pc'[c] = "delay") => UNCHANGED slowdownVars
          /\ (pc[c] = "delay" /\ pc'[c] # "delay" /\ ~_slowdown_active) =>
                 slowdown_delay'[c] = 0]_vars

\* a call has just read a delay of zero after its own check ended the slow
\* period: no other task has run a check at this clock reading
C18_Witness ==
    \E c \in Calls :
        /\ pc[c] = "sleep_base" /\ remaining[c] = BaseDelayMs
        /\ slowdown_delay[c] = 0
        /\ _slowdown_enabled /\ ~_slowdown_active
        /\ _next_slowdown_time = now + Ms(_slowdown_interval)
        /\ monitor_pc = "sleep" /\ monitor_remaining = 0
        /\ \A o \in Calls \ {c} : pc[o] \in {"idle", "acquire"}

----------------------------------------------------------------------------
\* no state check has run since the construction
BeforeFirstCheck ==
    /\ _slowdown_enabled /\ ~_slowdown_active
    /\ _next_slowdown_time = Ms(EpochStart)

\* the first slow period is running
InFirstPeriod ==
    /\ _slowdown_enabled /\ _slowdown_active
    /\ _next_slowdown_time = Ms(EpochStart)

\* C19: with the slowdown enabled the next slowdown time is the construction
\* time, so the first state check, by a call or by the monitor and however
\* late, starts a slow period with start time = now; a call whose check runs
\* less than duration after that first check leaves the period active and
\* reads a delay in [minDelay, maxDelay].
C19_FirstCheckStartsSlowPeriod ==
    /\ _slowdown_enabled => _next_slowdown_time = now
    /\ [][/\ (CheckStep /\ BeforeFirstCheck) =>
                 _slowdown_active' /\ _slowdown_start_time' = now
          /\ \A c \in Calls :
                /\ (/\ pc[c] = "check" /\ pc'[c] = "delay"
                    /\ InFirstPeriod
                    /\ now - _slowdown_start_time < Ms(_slowdown_duration)) =>
                       InFirstPeriod'
                /\ (pc[c] = "delay" /\ pc'[c] # "delay" /\ InFirstPeriod) =>
                       /\ slowdown_delay'[c] >= Ms(_slowdown_min_delay)
                       /\ slowdown_delay'[c] <= Ms(_slowdown_max_delay)]_vars

\* the first check ran some time after the construction and started the
\* first slow period; a call checked at the same clock reading and sleeps
\* its slowdown delay
C19_Witness ==
    /\ InFirstPeriod
    /\ _slowdown_start_time > Ms(EpochStart)
    /\ now = _slowdown_start_time
    /\ \E c \in Calls :
          /\ pc[c] = "sleep_slowdown"
          /\ slowdown_delay[c] >= Ms(_slowdown_min_delay)
          /\ remaining[c] = slowdown_delay[c]

----------------------------------------------------------------------------
\* C20: the lock is held only by a task that is inside its `async with`
\* block and ready to run, never by a task that sleeps or has returned; and
\* under fair scheduling every call that has started gets the lock, ends its
\* sleeps and returns a result, whatever the other calls and the monitor do.
C20_EveryCallReturns ==
    /\ [](\A c \in Calls : _slowdown_lock = c <=> pc[c] \in {"check", "delay"})
    /\ [](_slowdown_lock = Monitor <=> monitor_pc = "check")
    /\ \A c \in Calls :
          pc[c] = "acquire" ~> (\E r \in returned : r.call = c)

\* a call returns after a slowdown sleep while the monitor holds the lock
\* and another call waits for it
C20_Witness ==
    /\ \E r \in returned : r.slowdown_delay > 0
    /\ _slowdown_lock = Monitor
    /\ \E c \in Calls : pc[c] = "acquire"

====
